---- MODULE Spec2Model ----
(***************************************************************************)
(* A model of carton: the ContainerBuilder, the parent-side Container       *)
(* (run / wait_for_exit) and the child that sets up its namespaces and      *)
(* executes the command.  The kernel is modelled by the log of system calls *)
(* each child has issued and by the process table `children`.               *)
(***************************************************************************)
EXTENDS Integers, Sequences, FiniteSets, TLC

\* ---------------------------------------------------------------- bounds
MaxMounts == 4        \* longest mount list the builder assembles
MaxDevices == 6       \* longest device list the builder assembles
MaxRuns == 2          \* clone() calls explored per container
MaxAddMount == 1      \* add_mount() calls explored per builder
MaxAddDevice == 1     \* add_device() calls explored per builder

\* ---------------------------------------------------------------- values
\* Option<T>: None is the empty tuple, Some(x) the one-element tuple.
None == <<>>
Some(x) == <<x>>
IsSome(o) == o # <<>>
Unwrap(o) == o[1]

\* A PathBuf: absolute or relative, and its components.
AbsPath(comps) == [abs |-> TRUE, comps |-> comps]
RelPath(comps) == [abs |-> FALSE, comps |-> comps]

\* Path::join: an absolute argument replaces the base.
Join(base, p) == IF p.abs THEN p ELSE [abs |-> base.abs, comps |-> base.comps \o p.comps]

\* Whether path a is path b or an ancestor of it.
IsPrefix(a, b) ==
    /\ a.abs = b.abs
    /\ Len(a.comps) <= Len(b.comps)
    /\ SubSeq(b.comps, 1, Len(a.comps)) = a.comps

RootPath == AbsPath(<<>>)

\* The host file system the launcher sees: the directories that exist.
RootfsDir == AbsPath(<<"srv", "rootfs">>)
RootfsMissing == AbsPath(<<"tmp", "nonexistent-xyz">>)
HostShm == AbsPath(<<"host", "shm">>)
HostDirs == {RootPath, RootfsDir, HostShm}
is_dir(path) == path \in HostDirs

\* ---------------------------------------------------------------- Mount
MS_BIND == "MS_BIND"
MS_PRIVATE == "MS_PRIVATE"
MS_REC == "MS_REC"
MS_SLAVE == "MS_SLAVE"
MNT_DETACH == "MNT_DETACH"

Mount_bind(source, relative_target, flags, data) ==
    [source |-> Some(source), relative_target |-> relative_target, fstype |-> None,
     flags |-> IF IsSome(flags) THEN Unwrap(flags) ELSE {MS_BIND, MS_PRIVATE},
     data |-> data]

Mount_procfs(relative_target) ==
    [source |-> None, relative_target |-> relative_target, fstype |-> Some("proc"),
     flags |-> {}, data |-> None]

Mount_rootfs(source) ==
    [source |-> Some(source), relative_target |-> RelPath(<<>>), fstype |-> None,
     flags |-> {MS_BIND, MS_PRIVATE}, data |-> None]

Mount_tmpfs(relative_target) ==
    [source |-> None, relative_target |-> relative_target, fstype |-> Some("tmpfs"),
     flags |-> {}, data |-> None]

DeviceNode(path, major, minor) == [path |-> path, major |-> major, minor |-> minor]

\* ---------------------------------------------------------------- errors
Ok == [kind |-> "Ok", arg |-> ""]
Err(kind, arg) == [kind |-> kind, arg |-> arg]

\* ---------------------------------------------------------------- state
VARIABLES
    built,        \* FALSE while the ContainerBuilder is being assembled, TRUE once build() returned
    stack_size,   \* ContainerBuilder.stack_size: Option<u64>
    config,       \* ContainerConfiguration (the builder's, then the container's)
    state,        \* Container.state
    pid,          \* Container.pid: Option<Pid>
    buffer,       \* Container.buffer.stack: its length
    children,     \* the process table: pid -> the child process (running or zombie)
    nclones,      \* successful clone() calls so far (the next pid)
    last,         \* the last call the caller made on the container and what it returned
    main          \* the launcher: where main() is, and the exit code once it returned

vars == <<built, stack_size, config, state, pid, buffer, children, nclones, last, main>>

\* ---------------------------------------------------------------- inputs
\* u64::MAX, the 'unlimited' sentinel of getrlimit (the largest integer of the model).
U64_MAX == 2147483647
\* consts.rs, the compile-time default of the stack buffer's size.
DEFAULT_CONTAINER_STACK_SIZE == 1048576

RootfsInputs == {RootfsDir, RootfsMissing}
CommandPath == "/bin/sh"
CommandWithNul == "/bin/s\\0h"
CommandInputs == {[command |-> CommandPath, args |-> Some(<<"-c", "true">>)],
                  [command |-> CommandWithNul, args |-> None]}
StackSizeInputs == {65536, U64_MAX}
\* What getrlimit(RLIMIT_STACK) answers: an error, or the soft limit.
RlimitResults == {None, Some(8388608), Some(U64_MAX)}
AddMountInputs == {[source |-> HostShm, relative_target |-> RelPath(<<"dev", "shm">>)]}
AddDeviceInputs == {DeviceNode(RelPath(<<"kmsg">>), 1, 11)}
\* The exit codes of a command that was executed.
ExitCodes == {0, 1}

\* CString::new fails on an interior NUL byte.
HasNul(s) == s = CommandWithNul

\* ---------------------------------------------------------------- Init
\* ContainerBuilder::new(): every field at its default.
ConfigDefault ==
    [rootfs |-> None, command |-> None, arguments |-> <<>>, mounts |-> <<>>, devices |-> <<>>]

NoCall == [op |-> "none", kind |-> "", arg |-> "", code |-> 0]

\* The launcher before its first builder call: main() has not returned.
MainInit == [pc |-> "rootfs", exit_code |-> None]

Init ==
    /\ built = FALSE
    /\ stack_size = None
    /\ config = ConfigDefault
    /\ state = "NotCreated"
    /\ pid = None
    /\ buffer = 0
    /\ children = <<>>
    /\ nclones = 0
    /\ last = NoCall
    /\ main = MainInit

containerVars == <<state, pid, buffer, children, nclones, last>>

\* ---------------------------------------------------------------- ContainerBuilder
rootfs(path) ==
    /\ ~built
    /\ config' = [config EXCEPT !.rootfs = Some(Mount_rootfs(path))]
    /\ UNCHANGED <<built, stack_size, containerVars>>

command(cmd, args) ==
    /\ ~built
    /\ config' = [config EXCEPT !.command = Some(cmd),
                                !.arguments = IF IsSome(args) THEN Unwrap(args) ELSE <<>>]
    /\ UNCHANGED <<built, stack_size, containerVars>>

set_stack_size(size) ==
    /\ ~built
    /\ stack_size' = Some(size)
    /\ UNCHANGED <<built, config, containerVars>>

\* Mutant: the entry for dev comes first.
DefaultMounts_DevFirst ==
    <<Mount_tmpfs(RelPath(<<"dev">>)), Mount_procfs(RelPath(<<"proc">>)),
      Mount_tmpfs(RelPath(<<"tmp">>))>>

DefaultMounts ==
    <<Mount_procfs(RelPath(<<"proc">>)), Mount_tmpfs(RelPath(<<"tmp">>)),
      Mount_tmpfs(RelPath(<<"dev">>))>>

add_default_mounts ==
    /\ ~built
    /\ Len(config.mounts) + Len(DefaultMounts) <= MaxMounts
    /\ config' = [config EXCEPT !.mounts = @ \o DefaultMounts]
    /\ UNCHANGED <<built, stack_size, containerVars>>

add_mount(source, relative_target) ==
    /\ ~built
    /\ Len(config.mounts) + 1 <= MaxMounts
    /\ Cardinality({k \in 1..Len(config.mounts) : IsSome(config.mounts[k].source)})
          < MaxAddMount
    /\ config' = [config EXCEPT
                    !.mounts = Append(@, Mount_bind(source, relative_target, None, None))]
    /\ UNCHANGED <<built, stack_size, containerVars>>

\* Mutant: urandom and random with each other's minor number.
DefaultDevices_MinorsSwapped ==
    <<DeviceNode(RelPath(<<"null">>), 1, 3), DeviceNode(RelPath(<<"zero">>), 1, 5),
      DeviceNode(RelPath(<<"full">>), 1, 7), DeviceNode(RelPath(<<"tty">>), 5, 0),
      DeviceNode(RelPath(<<"urandom">>), 1, 8), DeviceNode(RelPath(<<"random">>), 1, 9)>>

DefaultDevices ==
    <<DeviceNode(RelPath(<<"null">>), 1, 3), DeviceNode(RelPath(<<"zero">>), 1, 5),
      DeviceNode(RelPath(<<"full">>), 1, 7), DeviceNode(RelPath(<<"tty">>), 5, 0),
      DeviceNode(RelPath(<<"urandom">>), 1, 9), DeviceNode(RelPath(<<"random">>), 1, 8)>>

add_default_devices ==
    /\ ~built
    /\ Len(config.devices) + Len(DefaultDevices) <= MaxDevices
    /\ config' = [config EXCEPT !.devices = @ \o DefaultDevices]
    /\ UNCHANGED <<built, stack_size, containerVars>>

add_device(path, major, minor) ==
    /\ ~built
    /\ Len(config.devices) + 1 <= MaxDevices
    /\ Cardinality({k \in 1..Len(config.devices) : config.devices[k] \in AddDeviceInputs})
          < MaxAddDevice
    /\ config' = [config EXCEPT !.devices = Append(@, DeviceNode(path, major, minor))]
    /\ UNCHANGED <<built, stack_size, containerVars>>

\* Mutant: an explicit override is used as it is, the 'unlimited' value included.
determine_stack_size_OverrideAsIs(override, rlimit) ==
    IF IsSome(override) THEN Unwrap(override)
    ELSE IF IsSome(rlimit) /\ Unwrap(rlimit) # U64_MAX THEN Unwrap(rlimit)
    ELSE DEFAULT_CONTAINER_STACK_SIZE

\* determine_stack_size: the override, else the soft rlimit, the sentinel and an
\* rlimit error both giving the default.
determine_stack_size(override, rlimit) ==
    LET size == IF IsSome(override) THEN override ELSE rlimit
    IN  IF IsSome(size)
        THEN IF Unwrap(size) = U64_MAX THEN DEFAULT_CONTAINER_STACK_SIZE ELSE Unwrap(size)
        ELSE DEFAULT_CONTAINER_STACK_SIZE

build(rlimit) ==
    /\ ~built
    /\ built' = TRUE
    /\ buffer' = determine_stack_size(stack_size, rlimit)
    /\ state' = "NotCreated"
    /\ pid' = None
    /\ UNCHANGED <<stack_size, config, children, nclones, last>>

\* ---------------------------------------------------------------- ContainerConfiguration
\* Mutant: the command is checked before the rootfs.
validate_CommandFirst(cfg) ==
    IF ~IsSome(cfg.command)
    THEN Err("MissingRequiredConfiguration", "command")
    ELSE IF ~IsSome(cfg.rootfs)
    THEN Err("MissingRequiredConfiguration", "rootfs")
    ELSE IF ~is_dir(Unwrap(Unwrap(cfg.rootfs).source))
    THEN Err("InvalidConfiguration", "rootfs does not exist or is not a directory")
    ELSE Ok

validate(cfg) ==
    IF ~IsSome(cfg.rootfs)
    THEN Err("MissingRequiredConfiguration", "rootfs")
    ELSE IF ~is_dir(Unwrap(Unwrap(cfg.rootfs).source))
    THEN Err("InvalidConfiguration", "rootfs does not exist or is not a directory")
    ELSE IF ~IsSome(cfg.command)
    THEN Err("MissingRequiredConfiguration", "command")
    ELSE Ok

\* ---------------------------------------------------------------- processes
Exited(code) == [kind |-> "Exited", code |-> code, sig |-> ""]
Signaled(sig) == [kind |-> "Signaled", code |-> -1, sig |-> sig]
\* A traced child that stopped: waitpid reports it although the child lives on.
Stopped(sig) == [kind |-> "Stopped", code |-> -1, sig |-> sig]

\* Mutant: prepare_rootfs without the private remount of "/".
ChildEntry_SkipRemount == "prepare_rootfs_bind"

\* The first step of the child closure: setup_namespaces, and in it prepare_rootfs.
ChildEntry == "prepare_rootfs_remount"

\* The child as clone() creates it: at the start of the closure, no call issued.
\* Mutant: clone() returns to the parent only once the child has finished its setup
\* and executed the command.
ChildInit_AfterSetup == [pc |-> "command", i |-> 1, calls |-> <<>>, status |-> None]

ChildInit == [pc |-> ChildEntry, i |-> 1, calls |-> <<>>, status |-> None]

Alive(p) == p \in DOMAIN children /\ children[p].pc # "terminated"
Zombie(p) == p \in DOMAIN children /\ children[p].pc = "terminated"
\* A child with a status waitpid has not reported yet: it terminated, or it stopped.
Waitable(p) == p \in DOMAIN children /\ children[p].status # None

\* ---------------------------------------------------------------- Container
Returns(op, res, code) == last' = [op |-> op, kind |-> res.kind, arg |-> res.arg, code |-> code]

\* Mutant: the guard tests the wrong state.
IsRunning_WrongState == state = "Exited"

\* run(): the guard against a second run.
IsRunning == state = "Running"

\* clone() succeeded: the child exists, runs the closure on the container's stack.
\* Mutant: the state becomes Running but the PID is not recorded.
CloneOk_NoPid ==
    /\ nclones < MaxRuns
    /\ LET p == nclones + 1
       IN  /\ children' = (p :> ChildInit) @@ children
           /\ nclones' = p
           /\ pid' = pid
           /\ state' = "Running"
    /\ Returns("run", Ok, 0)

CloneOk ==
    /\ nclones < MaxRuns
    /\ LET p == nclones + 1
       IN  /\ children' = (p :> ChildInit) @@ children
           /\ nclones' = p
           /\ pid' = Some(p)
           /\ state' = "Running"
    /\ Returns("run", Ok, 0)

\* Mutant: the state is recorded before clone()'s result is known.
CloneErr_SetsRunning ==
    /\ Returns("run", Err("SysCallFailed", "clone"), 0)
    /\ state' = "Running"
    /\ UNCHANGED <<pid, children, nclones>>

\* clone() failed: `?` returns SysCallFailed before anything is recorded.
CloneErr ==
    /\ Returns("run", Err("SysCallFailed", "clone"), 0)
    /\ UNCHANGED <<state, pid, children, nclones>>

run ==
    /\ built
    /\ IF IsRunning
       THEN /\ Returns("run", Err("AlreadyRunning", ""), 0)
            /\ UNCHANGED <<state, pid, children, nclones>>
       ELSE IF validate(config) # Ok
       THEN /\ Returns("run", validate(config), 0)
            /\ UNCHANGED <<state, pid, children, nclones>>
       ELSE CloneOk \/ CloneErr
    /\ UNCHANGED <<built, stack_size, config, buffer>>

\* waitpid has reported p's status: a terminated child is reaped, a stopped one stays.
Reap(p) ==
    IF Zombie(p)
    THEN [q \in DOMAIN children \ {p} |-> children[q]]
    ELSE [children EXCEPT ![p].status = None]

\* Mutant: only a reported exit clears the PID and ends the Running state.
AfterWait_ExitOnly(kind) ==
    IF kind = "Exited"
    THEN pid' = None /\ state' = "Exited"
    ELSE UNCHANGED <<pid, state>>

\* wait_for_exit after its match: whatever waitpid answered, the PID is cleared and
\* the state is Exited.
AfterWait(kind) == pid' = None /\ state' = "Exited"

\* waitpid(target, None) returned p's status.
WaitOk(p) ==
    /\ Waitable(p)
    /\ LET st == Unwrap(children[p].status)
       IN  /\ Returns("wait_for_exit", [kind |-> st.kind, arg |-> st.sig], st.code)
           /\ AfterWait(st.kind)
    /\ children' = Reap(p)

\* waitpid(target, None) failed: there is no such child.
WaitErr ==
    /\ Returns("wait_for_exit", Err("ECHILD", ""), 0)
    /\ AfterWait("ECHILD")
    /\ UNCHANGED children

\* waitpid(self.pid, None): a pid waits for that child, None for any child; it returns
\* when the child has a status to report, and fails with ECHILD when there is no such
\* child.  No signal handler is installed, so the wait is not interrupted.
wait_for_exit ==
    /\ built
    /\ IF IsSome(pid)
       THEN IF Unwrap(pid) \in DOMAIN children THEN WaitOk(Unwrap(pid)) ELSE WaitErr
       ELSE IF DOMAIN children = {} THEN WaitErr
            ELSE \E p \in DOMAIN children : WaitOk(p)
    /\ UNCHANGED <<built, stack_size, config, buffer, nclones>>

\* ---------------------------------------------------------------- the child
parentVars == <<built, stack_size, config, state, pid, buffer, nclones, last>>

\* config.rootfs.source, as namespace.rs reads it (validate() has made sure it is there).
RootfsSource == Unwrap(Unwrap(config.rootfs).source)

MountCall(source, target, fstype, flags, data, ok) ==
    [op |-> "mount", source |-> source, target |-> target, fstype |-> fstype,
     flags |-> flags, data |-> data, ok |-> ok]
MknodCall(path, kind, perm, dev, ok) ==
    [op |-> "mknod", path |-> path, kind |-> kind, perm |-> perm, dev |-> dev, ok |-> ok]
SymlinkCall(path1, path2, ok) ==
    [op |-> "symlinkat", path1 |-> path1, path2 |-> path2, ok |-> ok]
PivotRootCall(new_root, put_old, ok) ==
    [op |-> "pivot_root", new_root |-> new_root, put_old |-> put_old, ok |-> ok]
UmountCall(target, flags, ok) ==
    [op |-> "umount2", target |-> target, flags |-> flags, ok |-> ok]
ChdirCall(path, ok) == [op |-> "chdir", path |-> path, ok |-> ok]
ExecvCall(path, argv, ok) == [op |-> "execv", path |-> path, argv |-> argv, ok |-> ok]

\* The call returned Ok: the child goes on at `pc`.
Returned(p, call, pc, i) ==
    children' = [children EXCEPT ![p] =
        [pc |-> pc, i |-> i, calls |-> Append(@.calls, call), status |-> None]]

\* Mutant: the closure turns the error into the exit status 0.
Panic_ExitsZero(p, call) ==
    children' = [children EXCEPT ![p] =
        [pc |-> "terminated", i |-> 1, calls |-> Append(@.calls, call),
         status |-> Some(Exited(0))]]

\* The call returned Err: `?` carries it out of setup_namespaces, where expect() panics
\* (unwrap() for chdir and execv); the panic cannot unwind out of the clone callback
\* and aborts the child.
Panic(p, call) ==
    children' = [children EXCEPT ![p] =
        [pc |-> "terminated", i |-> 1, calls |-> Append(@.calls, call),
         status |-> Some(Signaled("SIGABRT"))]]

\* One system call of the child: it succeeds or it fails.
Issue(p, call, pc, i) ==
    \E ok \in BOOLEAN :
        IF ok THEN Returned(p, call, pc, i) ELSE Panic(p, [call EXCEPT !.ok = FALSE])

At(p, pc) == p \in DOMAIN children /\ children[p].pc = pc

\* prepare_rootfs: remount "/" recursively private.
prepare_rootfs_remount(p) ==
    /\ At(p, "prepare_rootfs_remount")
    /\ LET call == MountCall(None, RootPath, None, {MS_REC, MS_PRIVATE}, None, TRUE)
       IN  Issue(p, call, "prepare_rootfs_bind", 1)
    /\ UNCHANGED parentVars

\* prepare_rootfs: bind the new root onto itself.
prepare_rootfs_bind(p) ==
    /\ At(p, "prepare_rootfs_bind")
    /\ LET call == MountCall(Some(RootfsSource), RootfsSource, None,
                                 {MS_BIND, MS_PRIVATE}, None, TRUE)
       IN  Issue(p, call, "mount_procfs", 1)
    /\ UNCHANGED parentVars

mount_procfs(p) ==
    /\ At(p, "mount_procfs")
    /\ LET call == MountCall(None, Join(RootfsSource, RelPath(<<"proc">>)),
                                 Some("proc"), {}, None, TRUE)
       IN  Issue(p, call, "mount_tmp", 1)
    /\ UNCHANGED parentVars

mount_tmp(p) ==
    /\ At(p, "mount_tmp")
    /\ LET call == MountCall(None, Join(RootfsSource, RelPath(<<"tmp">>)),
                                 Some("tmpfs"), {}, None, TRUE)
       IN  Issue(p, call, "mount_additional_binds", 1)
    /\ UNCHANGED parentVars

\* mount_additional_binds, one turn of its loop: the entry's source and destination
\* (the Mount's relative_target) as a private bind mount.
mount_additional_binds(p) ==
    /\ At(p, "mount_additional_binds")
    /\ children[p].i <= Len(config.mounts)
    /\ LET mount_spec == config.mounts[children[p].i]
           call == MountCall(mount_spec.source,
                                 Join(RootfsSource, mount_spec.relative_target),
                                 None, {MS_BIND, MS_PRIVATE}, None, TRUE)
       IN  Issue(p, call, "mount_additional_binds", children[p].i + 1)
    /\ UNCHANGED parentVars

\* Mutant: setup_namespaces without its call of mount_dev.
mount_additional_binds_done_SkipDev(p) ==
    /\ At(p, "mount_additional_binds")
    /\ children[p].i > Len(config.mounts)
    /\ children' = [children EXCEPT ![p].pc = "create_device_nodes", ![p].i = 1]
    /\ UNCHANGED parentVars

\* mount_additional_binds: the loop is through, Ok(()).
mount_additional_binds_done(p) ==
    /\ At(p, "mount_additional_binds")
    /\ children[p].i > Len(config.mounts)
    /\ children' = [children EXCEPT ![p].pc = "mount_dev", ![p].i = 1]
    /\ UNCHANGED parentVars

DevPath == Join(RootfsSource, RelPath(<<"dev">>))

\* Mutant: setup_namespaces calls mount_rootfs before create_device_nodes.
mount_dev_ThenPivot(p) ==
    /\ At(p, "mount_dev")
    /\ LET call == MountCall(None, DevPath, Some("tmpfs"), {}, None, TRUE)
       IN  Issue(p, call, "pivot_root", 1)
    /\ UNCHANGED parentVars

mount_dev(p) ==
    /\ At(p, "mount_dev")
    /\ LET call == MountCall(None, DevPath, Some("tmpfs"), {}, None, TRUE)
       IN  Issue(p, call, "create_device_nodes", 1)
    /\ UNCHANGED parentVars

\* stat::makedev for majors below 4096 and minors below 256.
makedev(major, minor) == major * 256 + minor

\* create_device_nodes, one turn of its loop.
create_device_nodes(p) ==
    /\ At(p, "create_device_nodes")
    /\ children[p].i <= Len(config.devices)
    /\ LET node == config.devices[children[p].i]
           call == MknodCall(Join(DevPath, node.path), "S_IFCHR", "0o666",
                                 makedev(node.major, node.minor), TRUE)
       IN  Issue(p, call, "create_device_nodes", children[p].i + 1)
    /\ UNCHANGED parentVars

\* create_device_nodes: the loop is through, the symlinks follow.
create_device_nodes_done(p) ==
    /\ At(p, "create_device_nodes")
    /\ children[p].i > Len(config.devices)
    /\ children' = [children EXCEPT ![p].pc = "symlinkat", ![p].i = 1]
    /\ UNCHANGED parentVars

Symlinks ==
    <<[path1 |-> "/proc/self/fd", name |-> "fd"],
      [path1 |-> "/proc/self/fd/0", name |-> "stdin"],
      [path1 |-> "/proc/self/fd/1", name |-> "stdout"],
      [path1 |-> "/proc/self/fd/2", name |-> "stderr"]>>

\* create_device_nodes: the four symlinks, in the order of the code.
create_device_nodes_symlinkat(p) ==
    /\ At(p, "symlinkat")
    /\ LET k == children[p].i
           call == SymlinkCall(Symlinks[k].path1,
                                   Join(DevPath, RelPath(<<Symlinks[k].name>>)), TRUE)
       IN  IF k < Len(Symlinks)
           THEN Issue(p, call, "symlinkat", k + 1)
           ELSE Issue(p, call, "pivot_root", 1)
    /\ UNCHANGED parentVars

mount_rootfs_pivot_root(p) ==
    /\ At(p, "pivot_root")
    /\ LET call == PivotRootCall(RootfsSource, RootfsSource, TRUE)
       IN  Issue(p, call, "remount_slave", 1)
    /\ UNCHANGED parentVars

mount_rootfs_remount_slave(p) ==
    /\ At(p, "remount_slave")
    /\ LET call == MountCall(None, RootPath, None, {MS_SLAVE, MS_REC}, None, TRUE)
       IN  Issue(p, call, "umount2", 1)
    /\ UNCHANGED parentVars

mount_rootfs_umount2(p) ==
    /\ At(p, "umount2")
    /\ LET call == UmountCall(RootPath, {MNT_DETACH}, TRUE)
       IN  Issue(p, call, "chdir", 1)
    /\ UNCHANGED parentVars

\* The closure, after setup_namespaces: chdir("/").unwrap().
chdir(p) ==
    /\ At(p, "chdir")
    /\ LET call == ChdirCall(RootPath, TRUE)
       IN  Issue(p, call, "execute_command", 1)
    /\ UNCHANGED parentVars

\* execute_command: 126 when the command is no C string; else execv, which returns
\* only when it failed, and the unwrap() of its error panics.
execute_command(p) ==
    /\ At(p, "execute_command")
    /\ LET cmd == Unwrap(config.command)
           call == ExecvCall(cmd, <<cmd>> \o config.arguments, TRUE)
       IN  IF HasNul(cmd)
           THEN children' = [children EXCEPT ![p].pc = "terminated",
                                             ![p].status = Some(Exited(126))]
           ELSE Issue(p, call, "command", 1)
    /\ UNCHANGED parentVars

\* The command, executed, exits.
command_exit(p, code) ==
    /\ At(p, "command")
    /\ children' = [children EXCEPT ![p].pc = "terminated", ![p].status = Some(Exited(code))]
    /\ UNCHANGED parentVars

\* The command, executed, asks to be traced (PTRACE_TRACEME) and stops on a signal:
\* the parent's waitpid reports the stop, and nobody resumes the child.
command_stop(p) ==
    /\ At(p, "command")
    /\ children' = [children EXCEPT ![p].pc = "stopped", ![p].status = Some(Stopped("SIGSTOP"))]
    /\ UNCHANGED parentVars

\* ---------------------------------------------------------------- specification
Next ==
    \/ /\ \E path \in RootfsInputs : rootfs(path)
       /\ UNCHANGED main
    \/ /\ \E c \in CommandInputs : command(c.command, c.args)
       /\ UNCHANGED main
    \/ /\ \E size \in StackSizeInputs : set_stack_size(size)
       /\ UNCHANGED main
    \/ /\ add_default_mounts
       /\ UNCHANGED main
    \/ /\ \E m \in AddMountInputs : add_mount(m.source, m.relative_target)
       /\ UNCHANGED main
    \/ /\ add_default_devices
       /\ UNCHANGED main
    \/ /\ \E d \in AddDeviceInputs : add_device(d.path, d.major, d.minor)
       /\ UNCHANGED main
    \/ /\ \E rlimit \in RlimitResults : build(rlimit)
       /\ UNCHANGED main
    \/ /\ run
       /\ UNCHANGED main
    \/ /\ wait_for_exit
       /\ UNCHANGED main
    \/ /\ \E p \in DOMAIN children : prepare_rootfs_remount(p)
       /\ UNCHANGED main
    \/ /\ \E p \in DOMAIN children : prepare_rootfs_bind(p)
       /\ UNCHANGED main
    \/ /\ \E p \in DOMAIN children : mount_procfs(p)
       /\ UNCHANGED main
    \/ /\ \E p \in DOMAIN children : mount_tmp(p)
       /\ UNCHANGED main
    \/ /\ \E p \in DOMAIN children : mount_additional_binds(p)
       /\ UNCHANGED main
    \/ /\ \E p \in DOMAIN children : mount_additional_binds_done(p)
       /\ UNCHANGED main
    \/ /\ \E p \in DOMAIN children : mount_dev(p)
       /\ UNCHANGED main
    \/ /\ \E p \in DOMAIN children : create_device_nodes(p)
       /\ UNCHANGED main
    \/ /\ \E p \in DOMAIN children : create_device_nodes_done(p)
       /\ UNCHANGED main
    \/ /\ \E p \in DOMAIN children : create_device_nodes_symlinkat(p)
       /\ UNCHANGED main
    \/ /\ \E p \in DOMAIN children : mount_rootfs_pivot_root(p)
       /\ UNCHANGED main
    \/ /\ \E p \in DOMAIN children : mount_rootfs_remount_slave(p)
       /\ UNCHANGED main
    \/ /\ \E p \in DOMAIN children : mount_rootfs_umount2(p)
       /\ UNCHANGED main
    \/ /\ \E p \in DOMAIN children : chdir(p)
       /\ UNCHANGED main
    \/ /\ \E p \in DOMAIN children : execute_command(p)
       /\ UNCHANGED main
    \/ /\ \E p \in DOMAIN children, code \in ExitCodes : command_exit(p, code)
       /\ UNCHANGED main
    \/ /\ \E p \in DOMAIN children : command_stop(p)
       /\ UNCHANGED main

Spec == Init /\ [][Next]_vars

\* ---------------------------------------------------------------- the launcher
\* main(): the builder calls in program order, each moving main to the next call.
MainGoto(pc) == main' = [main EXCEPT !.pc = pc]

main_rootfs ==
    /\ main.pc = "rootfs"
    /\ \E path \in RootfsInputs : rootfs(path)
    /\ MainGoto("command")

main_command ==
    /\ main.pc = "command"
    /\ \E c \in CommandInputs : command(c.command, c.args)
    /\ MainGoto("add_default_mounts")

main_add_default_mounts ==
    /\ main.pc = "add_default_mounts"
    /\ add_default_mounts
    /\ MainGoto("add_default_devices")

main_add_default_devices ==
    /\ main.pc = "add_default_devices"
    /\ add_default_devices
    /\ MainGoto("build")

\* build() returns Ok in every case, so `?` never returns here.
main_build ==
    /\ main.pc = "build"
    /\ \E rlimit \in RlimitResults : build(rlimit)
    /\ MainGoto("run")

\* container.run()?: an error returns from main, and the process exits with 1.
main_run ==
    /\ main.pc = "run"
    /\ run
    /\ IF last'.kind = "Ok"
       THEN MainGoto("wait_for_exit")
       ELSE main' = [pc |-> "done", exit_code |-> Some(1)]

\* Mutant: the launcher exits with the child's exit code.
main_wait_for_exit_ChildCode ==
    /\ main.pc = "wait_for_exit"
    /\ wait_for_exit
    /\ main' = [pc |-> "done", exit_code |-> Some(last'.code)]

\* container.wait_for_exit(); Ok(()): the process exits with 0.
main_wait_for_exit ==
    /\ main.pc = "wait_for_exit"
    /\ wait_for_exit
    /\ main' = [pc |-> "done", exit_code |-> Some(0)]

MainNext ==
    \/ main_rootfs
    \/ main_command
    \/ main_add_default_mounts
    \/ main_add_default_devices
    \/ main_build
    \/ main_run
    \/ main_wait_for_exit
    \/ /\ \E p \in DOMAIN children : prepare_rootfs_remount(p)
       /\ UNCHANGED main
    \/ /\ \E p \in DOMAIN children : prepare_rootfs_bind(p)
       /\ UNCHANGED main
    \/ /\ \E p \in DOMAIN children : mount_procfs(p)
       /\ UNCHANGED main
    \/ /\ \E p \in DOMAIN children : mount_tmp(p)
       /\ UNCHANGED main
    \/ /\ \E p \in DOMAIN children : mount_additional_binds(p)
       /\ UNCHANGED main
    \/ /\ \E p \in DOMAIN children : mount_additional_binds_done(p)
       /\ UNCHANGED main
    \/ /\ \E p \in DOMAIN children : mount_dev(p)
       /\ UNCHANGED main
    \/ /\ \E p \in DOMAIN children : create_device_nodes(p)
       /\ UNCHANGED main
    \/ /\ \E p \in DOMAIN children : create_device_nodes_done(p)
       /\ UNCHANGED main
    \/ /\ \E p \in DOMAIN children : create_device_nodes_symlinkat(p)
       /\ UNCHANGED main
    \/ /\ \E p \in DOMAIN children : mount_rootfs_pivot_root(p)
       /\ UNCHANGED main
    \/ /\ \E p \in DOMAIN children : mount_rootfs_remount_slave(p)
       /\ UNCHANGED main
    \/ /\ \E p \in DOMAIN children : mount_rootfs_umount2(p)
       /\ UNCHANGED main
    \/ /\ \E p \in DOMAIN children : chdir(p)
       /\ UNCHANGED main
    \/ /\ \E p \in DOMAIN children : execute_command(p)
       /\ UNCHANGED main
    \/ /\ \E p \in DOMAIN children, code \in ExitCodes : command_exit(p, code)
       /\ UNCHANGED main
    \/ /\ \E p \in DOMAIN children : command_stop(p)
       /\ UNCHANGED main

\* The launcher program: main() calling the library, and the child it starts.
SpecMain == Init /\ [][MainNext]_vars

\* ---------------------------------------------------------------- claims
Calls(p) == children[p].calls

IsPrivateRemount(c) ==
    /\ c.op = "mount"
    /\ c.source = None /\ c.target = RootPath /\ c.fstype = None
    /\ c.flags = {MS_REC, MS_PRIVATE} /\ c.data = None

TouchesMountTree(c) == c.op \in {"mount", "mknod", "symlinkat", "pivot_root", "umount2"}

PreLaunchErrors == {"MissingRequiredConfiguration", "InvalidConfiguration", "SysCallFailed"}

\* C1: run() on a Running container returns AlreadyRunning, creates no child and
\* leaves the state and the recorded PID as they were.
C1_RunWhileRunning ==
    [][(run /\ state = "Running") =>
          /\ last'.op = "run" /\ last'.kind = "AlreadyRunning"
          /\ children' = children /\ nclones' = nclones
          /\ state' = "Running" /\ pid' = pid]_vars

C1_Witness ==
    /\ last.op = "run" /\ last.kind = "AlreadyRunning"
    /\ state = "Running" /\ IsSome(pid) /\ DOMAIN children = {Unwrap(pid)}

\* C2 as stated: after run() returned a pre-launch error the container is NotCreated,
\* with no PID recorded.
C2_Original ==
    (last.op = "run" /\ last.kind \in PreLaunchErrors) => (state = "NotCreated" /\ pid = None)

\* C2, amended: a run() that returns a pre-launch error leaves the state as it was
\* (NotCreated, or Exited after an earlier wait_for_exit), records no PID and creates
\* no child.
C2_PreLaunchErrorChangesNothing ==
    [][(run /\ last'.kind \in PreLaunchErrors) =>
          /\ state' = state /\ state \in {"NotCreated", "Exited"}
          /\ pid' = None
          /\ children' = children /\ nclones' = nclones]_vars

C2_Witness ==
    /\ last.op = "run" /\ last.kind = "SysCallFailed"
    /\ state = "Exited" /\ pid = None /\ DOMAIN children = {}

\* C3: validate() rejects exactly when the rootfs is absent, its source is no directory
\* or the command is absent, the rootfs checks first; the mount list and the device list
\* never change the result; run() returns what validate() found.
C3_MountListsTried ==
    {<<>>, DefaultMounts, <<Mount_bind(RootfsMissing, AbsPath(<<"etc">>), None, None)>>}
C3_DeviceListsTried == {<<>>, DefaultDevices, <<DeviceNode(RelPath(<<>>), 0, 0)>>}

C3_Validate ==
    LET r == validate(config)
        noRootfs == config.rootfs = None
        notDir == config.rootfs # None /\ Unwrap(Unwrap(config.rootfs).source) \notin HostDirs
        noCommand == config.command = None
    IN  /\ (r # Ok) <=> (noRootfs \/ notDir \/ noCommand)
        /\ noRootfs => r = Err("MissingRequiredConfiguration", "rootfs")
        /\ notDir => r.kind = "InvalidConfiguration"
        /\ (~noRootfs /\ ~notDir /\ noCommand) => r = Err("MissingRequiredConfiguration", "command")
        /\ \A ms \in C3_MountListsTried, ds \in C3_DeviceListsTried :
              validate([config EXCEPT !.mounts = ms, !.devices = ds]) = r
        /\ (last.op = "run" /\ last.kind \notin {"AlreadyRunning", "SysCallFailed"}) =>
              (last.kind = r.kind /\ last.arg = r.arg)

C3_Witness ==
    /\ last.op = "run" /\ last.kind = "MissingRequiredConfiguration" /\ last.arg = "rootfs"
    /\ config.rootfs = None /\ config.command = None
    /\ config.mounts # <<>> /\ config.devices # <<>>

\* C4: the recursive-private remount of "/" is the child's first call, and no other
\* call that touches the mount tree is issued unless it has succeeded.
C4_PrivateRemountFirst ==
    \A p \in DOMAIN children : \A k \in 1..Len(Calls(p)) :
        IF k = 1
        THEN IsPrivateRemount(Calls(p)[1])
        ELSE TouchesMountTree(Calls(p)[k]) => (IsPrivateRemount(Calls(p)[1]) /\ Calls(p)[1].ok)

C4_Witness ==
    \E p \in DOMAIN children :
        /\ Len(Calls(p)) >= 3
        /\ IsPrivateRemount(Calls(p)[1]) /\ Calls(p)[1].ok
        /\ \E k \in 2..Len(Calls(p)) : Calls(p)[k].op = "pivot_root"

\* Two calls are the same call, whatever they returned.
SameCall(c, d) == c.op = d.op /\ [c EXCEPT !.ok = TRUE] = [d EXCEPT !.ok = TRUE]

\* The indices of the calls before the k-th that satisfy Q.
Before(p, k, Q(_)) == {j \in 1..(k - 1) : Q(Calls(p)[j])}

\* What follows a successful pivot_root, in order.
AfterPivot ==
    <<MountCall(None, RootPath, None, {MS_SLAVE, MS_REC}, None, TRUE),
      UmountCall(RootPath, {MNT_DETACH}, TRUE),
      ChdirCall(RootPath, TRUE),
      ExecvCall(Unwrap(config.command), <<Unwrap(config.command)>> \o config.arguments, TRUE)>>

\* C5: pivot_root(rootfs, rootfs) comes after the private remount, the self-bind, a
\* mount at the target of every entry of the mount list, every device node and every
\* symlink, all of them successful; what follows a successful pivot_root is, in this
\* order and with nothing between or after, the SLAVE|REC remount of "/",
\* umount2("/", DETACH), chdir("/") and execv of the command.
C5_PivotOrder ==
    \A p \in DOMAIN children : \A k \in 1..Len(Calls(p)) :
        Calls(p)[k].op = "pivot_root" =>
            /\ Calls(p)[k].new_root = RootfsSource /\ Calls(p)[k].put_old = RootfsSource
            /\ \A j \in 1..(k - 1) : Calls(p)[j].ok
            /\ k > 2
            /\ IsPrivateRemount(Calls(p)[1])
            /\ SameCall(Calls(p)[2], MountCall(Some(RootfsSource), RootfsSource, None,
                                               {MS_BIND, MS_PRIVATE}, None, TRUE))
            /\ \A m \in 1..Len(config.mounts) :
                  LET target == Join(RootfsSource, config.mounts[m].relative_target)
                      AtTarget(c) == c.op = "mount" /\ c.target = target
                      same == {n \in 1..Len(config.mounts) :
                                  Join(RootfsSource, config.mounts[n].relative_target) = target}
                  IN  Cardinality(Before(p, k, AtTarget) \ {1, 2}) >= Cardinality(same)
            /\ \A d \in 1..Len(config.devices) :
                  LET node == Join(DevPath, config.devices[d].path)
                      IsNode(c) == c.op = "mknod" /\ c.path = node
                      same == {n \in 1..Len(config.devices) :
                                  config.devices[n].path = config.devices[d].path}
                  IN  Cardinality(Before(p, k, IsNode)) >= Cardinality(same)
            /\ \A n \in 1..Len(Symlinks) :
                  LET link == Join(DevPath, RelPath(<<Symlinks[n].name>>))
                      IsLink(c) == /\ c.op = "symlinkat"
                                   /\ c.path1 = Symlinks[n].path1
                                   /\ c.path2 = link
                  IN  Before(p, k, IsLink) # {}
            /\ Len(Calls(p)) <= k + Len(AfterPivot)
            /\ \A j \in (k + 1)..Len(Calls(p)) :
                  Calls(p)[j - 1].ok /\ SameCall(Calls(p)[j], AfterPivot[j - k])

C5_Witness ==
    \E p \in DOMAIN children :
        /\ config.mounts # <<>> /\ config.devices # <<>>
        /\ Calls(p) # <<>>
        /\ Calls(p)[Len(Calls(p))].op = "execv" /\ Calls(p)[Len(Calls(p))].ok
        /\ \E k \in 1..Len(Calls(p)) : Calls(p)[k].op = "pivot_root"

\* The mount call the entry asks for: Mount::mount.
ListMountCall(m, ok) ==
    MountCall(m.source, Join(RootfsSource, m.relative_target), m.fstype, m.flags, m.data, ok)

\* C6: after the self-bind the child issues one mount per entry of the mount list, in
\* declaration order and with the entry's own source, fstype, flags and data, and no
\* other mount before pivot_root.
C6_MountListExact ==
    \A p \in DOMAIN children : \A k \in 3..Len(Calls(p)) :
        LET IsPivot(c) == c.op = "pivot_root"
        IN  IF k <= 2 + Len(config.mounts)
            THEN SameCall(Calls(p)[k], ListMountCall(config.mounts[k - 2], TRUE))
            ELSE Calls(p)[k].op = "mount" => Before(p, k, IsPivot) # {}

IsTmpfsAt(c, path) == c.op = "mount" /\ c.fstype = Some("tmpfs") /\ c.target = path

\* C7: with add_default_mounts() followed by add_mount() calls, every user bind mount is
\* issued after a successful tmpfs mount at dev, and no mount is placed on dev after it.
C7_UserBindsAfterDev ==
    \A p \in DOMAIN children :
        (/\ Len(config.mounts) > Len(DefaultMounts)
         /\ SubSeq(config.mounts, 1, Len(DefaultMounts)) = DefaultMounts
         /\ \A n \in (Len(DefaultMounts) + 1)..Len(config.mounts) : config.mounts[n].fstype = None)
        => \A k \in 1..Len(Calls(p)) :
              LET IsDevTmpfs(c) == IsTmpfsAt(c, DevPath) /\ c.ok
                  IsUserBind(c) ==
                      /\ c.op = "mount"
                      /\ \E n \in (Len(DefaultMounts) + 1)..Len(config.mounts) :
                            /\ c.source = config.mounts[n].source
                            /\ c.target = Join(RootfsSource, config.mounts[n].relative_target)
              IN  IsUserBind(Calls(p)[k]) =>
                      /\ Before(p, k, IsDevTmpfs) # {}
                      /\ \A j \in (k + 1)..Len(Calls(p)) :
                            ~(Calls(p)[j].op = "mount" /\ Calls(p)[j].target = DevPath)

\* C8: a device node or /dev symlink is created only after a successful tmpfs mount at
\* <rootfs>/dev, and from that mount to pivot_root no mount is placed on <rootfs>/dev
\* or above it.
C8_DevTmpfsBeforeNodes ==
    \A p \in DOMAIN children :
        LET dev == DevPath
            calls == Calls(p)
        IN  \A k \in 1..Len(calls) :
                calls[k].op \in {"mknod", "symlinkat"} =>
                    /\ IsPrefix(dev, IF calls[k].op = "mknod" THEN calls[k].path
                                     ELSE calls[k].path2)
                    /\ \E j \in 1..(k - 1) :
                          /\ IsTmpfsAt(calls[j], dev) /\ calls[j].ok
                          /\ \A m \in (j + 1)..Len(calls) :
                                LET IsPivot(c) == c.op = "pivot_root"
                                IN  (calls[m].op = "mount" /\ Before(p, m, IsPivot) = {})
                                        => ~IsPrefix(calls[m].target, dev)

C8_Witness ==
    \E p \in DOMAIN children :
        /\ \E n \in 1..Len(config.mounts) : config.mounts[n].relative_target = RelPath(<<"dev">>)
        /\ \E k \in 1..Len(Calls(p)) : Calls(p)[k].op = "mknod" /\ Calls(p)[k].ok
        /\ \E k \in 1..Len(Calls(p)) : Calls(p)[k].op = "symlinkat" /\ Calls(p)[k].ok
        /\ \E k \in 1..Len(Calls(p)) : Calls(p)[k].op = "pivot_root" /\ Calls(p)[k].ok

\* C9: a child whose execv returned has terminated with exit status 126.
C9_ExecFailureExits126 ==
    \A p \in DOMAIN children :
        (/\ Calls(p) # <<>>
         /\ Calls(p)[Len(Calls(p))].op = "execv"
         /\ ~Calls(p)[Len(Calls(p))].ok)
        => (children[p].pc = "terminated" /\ children[p].status = Some(Exited(126)))

SetupOps == {"mount", "mknod", "symlinkat", "pivot_root", "umount2"}

\* C10: a failed setup call is the child's last call (no later step, no execv); the
\* child has terminated, and not with the status of a successful exit; the parent's
\* run() had returned Ok and recorded the child, and nothing on the parent's side
\* changes until wait_for_exit.
C10_SetupFailureAborts ==
    \A p \in DOMAIN children : \A k \in 1..Len(Calls(p)) :
        (Calls(p)[k].op \in SetupOps /\ ~Calls(p)[k].ok) =>
            /\ k = Len(Calls(p))
            /\ children[p].pc = "terminated"
            /\ children[p].status # None
            /\ Unwrap(children[p].status) # Exited(0)
            /\ state = "Running" /\ pid = Some(p)

C10_Witness ==
    \E p \in DOMAIN children :
        /\ Calls(p) # <<>>
        /\ Calls(p)[Len(Calls(p))].op = "pivot_root" /\ ~Calls(p)[Len(Calls(p))].ok
        /\ children[p].status = Some(Signaled("SIGABRT"))
        /\ state = "Running" /\ pid = Some(p)

\* C11: the container is Exited, after a successful run(), only when no child
\* launched on it is still alive (the child of the preceding run() has terminated).
C11_ExitedOnlyAfterTermination ==
    (state = "Exited" /\ nclones > 0) => \A p \in DOMAIN children : ~Alive(p)

\* C12: wait_for_exit always returns, whatever waitpid answered (an exit with any
\* code, a signalled or stopped child, a wait error), with the PID cleared and the
\* state Exited.
C12_WaitAlwaysEndsExited ==
    last.op = "wait_for_exit" =>
        /\ last.kind \in {"Exited", "Signaled", "Stopped", "ECHILD"}
        /\ pid = None
        /\ state = "Exited"

\* wait_for_exit has returned on a status that is not an exit.
C12_Witness ==
    /\ last.op = "wait_for_exit"
    /\ last.kind = "Stopped"
    /\ state = "Exited" /\ pid = None

\* The table with an explicit override taken as it is.
StackTable_Original(override, rlimit) ==
    IF IsSome(override) THEN Unwrap(override)
    ELSE IF IsSome(rlimit) /\ Unwrap(rlimit) # U64_MAX THEN Unwrap(rlimit)
    ELSE DEFAULT_CONTAINER_STACK_SIZE

\* C13 as stated: build() gives a buffer of exactly N for an explicit override N,
\* u64::MAX included; without an override, the finite soft rlimit, else the default.
C13_Original ==
    [][\A rl \in RlimitResults :
          build(rl) => buffer' = StackTable_Original(stack_size, rl)]_vars

\* The table with u64::MAX meaning 'no usable size', wherever it comes from.
StackTable(override, rlimit) ==
    IF IsSome(override)
    THEN IF Unwrap(override) = U64_MAX THEN DEFAULT_CONTAINER_STACK_SIZE ELSE Unwrap(override)
    ELSE IF rlimit = None THEN DEFAULT_CONTAINER_STACK_SIZE
    ELSE IF Unwrap(rlimit) = U64_MAX THEN DEFAULT_CONTAINER_STACK_SIZE
    ELSE Unwrap(rlimit)

\* C13: build() sizes the buffer by this table: an explicit override N other than
\* u64::MAX gives N, an explicit override of u64::MAX gives the default; with no
\* override a finite soft rlimit R gives R, an rlimit of u64::MAX gives the default,
\* and an rlimit error gives the default.
C13_StackTable ==
    [][\A rl \in RlimitResults :
          build(rl) => buffer' = StackTable(stack_size, rl)]_vars

\* build() has run with an explicit override of u64::MAX.
C13_Witness ==
    /\ built
    /\ stack_size = Some(U64_MAX)
    /\ buffer = DEFAULT_CONTAINER_STACK_SIZE

\* C14: the launcher exits with 0 once build() and run() succeeded and wait_for_exit
\* returned, whatever the child's exit code, status or wait error was; it exits with
\* a non-zero code exactly when run() (build() never does) returned an error, and
\* then wait_for_exit was never called.
C14_LauncherExitCode ==
    /\ main.pc # "done" => main.exit_code = None
    /\ main.pc = "done" =>
          IF last.op = "wait_for_exit"
          THEN /\ main.exit_code = Some(0)
               /\ nclones = 1
          ELSE /\ last.op = "run" /\ last.kind # "Ok"
               /\ main.exit_code # None /\ main.exit_code # Some(0)
               /\ state # "Exited"
               /\ nclones = 0

\* The child exited with code 1 and the launcher with 0.
C14_Witness ==
    /\ main = [pc |-> "done", exit_code |-> Some(0)]
    /\ last.op = "wait_for_exit" /\ last.kind = "Exited" /\ last.code = 1

\* [procfs at proc, tmpfs at tmp, tmpfs at dev], written out.
ExpectedDefaultMounts ==
    <<[source |-> None, relative_target |-> RelPath(<<"proc">>), fstype |-> Some("proc"),
       flags |-> {}, data |-> None],
      [source |-> None, relative_target |-> RelPath(<<"tmp">>), fstype |-> Some("tmpfs"),
       flags |-> {}, data |-> None],
      [source |-> None, relative_target |-> RelPath(<<"dev">>), fstype |-> Some("tmpfs"),
       flags |-> {}, data |-> None]>>

\* C15: add_default_mounts() appends [procfs at proc, tmpfs at tmp, tmpfs at dev] in
\* that order (so on a fresh builder the list is exactly these), add_mount() appends
\* its one bind entry, the entries already in the list stay as they are and where
\* they are, and the other builder calls leave the list unchanged.
C15_MountListAppendOnly ==
    [][/\ add_default_mounts => config'.mounts = config.mounts \o ExpectedDefaultMounts
       /\ \A m \in AddMountInputs :
             add_mount(m.source, m.relative_target) =>
                 /\ Len(config'.mounts) = Len(config.mounts) + 1
                 /\ SubSeq(config'.mounts, 1, Len(config.mounts)) = config.mounts
                 /\ config'.mounts[Len(config'.mounts)].source = Some(m.source)
                 /\ config'.mounts[Len(config'.mounts)].relative_target = m.relative_target
       /\ (\/ \E path \in RootfsInputs : rootfs(path)
           \/ \E c \in CommandInputs : command(c.command, c.args)
           \/ \E size \in StackSizeInputs : set_stack_size(size)
           \/ add_default_devices
           \/ \E d \in AddDeviceInputs : add_device(d.path, d.major, d.minor))
             => config'.mounts = config.mounts]_vars

\* add_mount() then add_default_mounts(): the defaults follow the user's entry.
C15_Witness ==
    /\ Len(config.mounts) = 4
    /\ config.mounts[1].source = Some(HostShm)
    /\ SubSeq(config.mounts, 2, 4) = ExpectedDefaultMounts

\* C16: a child PID is recorded if and only if the state is Running, after any
\* sequence of run() and wait_for_exit() calls.
C16_PidIffRunning == IsSome(pid) <=> state = "Running"

\* A run() that failed after a run() and a wait_for_exit(): Exited, and no PID.
C16_Witness ==
    /\ nclones > 0
    /\ last.op = "run" /\ last.kind = "SysCallFailed"
    /\ state = "Exited" /\ pid = None

\* C17: the container is Exited only if an earlier run() on it succeeded and
\* launched a child.
C17_ExitedOnlyFromRunning == state = "Exited" => nclones > 0

\* C18: at most one child launched on the container's stack buffer is alive at a
\* time.
C18_OneLiveChildPerBuffer == Cardinality({p \in DOMAIN children : Alive(p)}) <= 1

\* One step of child p, whichever it is at.
ChildStep(p) ==
    \/ prepare_rootfs_remount(p) \/ prepare_rootfs_bind(p)
    \/ mount_procfs(p) \/ mount_tmp(p)
    \/ mount_additional_binds(p) \/ mount_additional_binds_done(p)
    \/ mount_dev(p)
    \/ create_device_nodes(p) \/ create_device_nodes_done(p)
    \/ create_device_nodes_symlinkat(p)
    \/ mount_rootfs_pivot_root(p) \/ mount_rootfs_remount_slave(p)
    \/ mount_rootfs_umount2(p)
    \/ chdir(p) \/ execute_command(p)
    \/ (\E code \in ExitCodes : command_exit(p, code)) \/ command_stop(p)

\* C19: run() does not synchronise with the child.  While the container is Running
\* with child p: a child that has issued no call yet is still before its first step
\* (run() returned without waiting for any of them); wherever the child is, it takes
\* its next step with the parent standing still, so every point of its sequence is
\* passed in the Running state; and run(), the parent's only other call, is never
\* held up by the child.
C19_RunDoesNotSynchronise ==
    \A p \in DOMAIN children :
        (state = "Running" /\ pid = Some(p)) =>
            /\ (Calls(p) = <<>> /\ Alive(p)) => children[p].pc = ChildEntry
            /\ (Alive(p) /\ children[p].pc # "stopped") => ENABLED ChildStep(p)
            /\ ENABLED run

\* run() has returned Ok, the container is Running and the child is in the middle
\* of its setup, between two make-node calls.
C19_Witness ==
    /\ state = "Running" /\ last.op = "run" /\ last.kind = "Ok"
    /\ IsSome(pid) /\ Unwrap(pid) \in DOMAIN children
    /\ children[Unwrap(pid)].pc = "create_device_nodes"
    /\ children[Unwrap(pid)].i = 2

IsMknod(c) == c.op = "mknod"
IsSymlink(c) == c.op = "symlinkat"
IsPivotRoot(c) == c.op = "pivot_root"

\* null(1,3), zero(1,5), full(1,7), tty(5,0), urandom(1,9), random(1,8), written out.
ExpectedDefaultDevices ==
    <<[path |-> RelPath(<<"null">>), major |-> 1, minor |-> 3],
      [path |-> RelPath(<<"zero">>), major |-> 1, minor |-> 5],
      [path |-> RelPath(<<"full">>), major |-> 1, minor |-> 7],
      [path |-> RelPath(<<"tty">>), major |-> 5, minor |-> 0],
      [path |-> RelPath(<<"urandom">>), major |-> 1, minor |-> 9],
      [path |-> RelPath(<<"random">>), major |-> 1, minor |-> 8]>>

\* <rootfs>/dev/<name>
UnderDev(name) == AbsPath(RootfsSource.comps \o <<"dev">> \o name)

ExpectedSymlinks ==
    <<[path1 |-> "/proc/self/fd", name |-> <<"fd">>],
      [path1 |-> "/proc/self/fd/0", name |-> <<"stdin">>],
      [path1 |-> "/proc/self/fd/1", name |-> <<"stdout">>],
      [path1 |-> "/proc/self/fd/2", name |-> <<"stderr">>]>>

\* The device list is what the builder calls contributed, in call order: one node
\* per add_device(), the six canonical nodes per add_default_devices().
RECURSIVE DevicesAsAdded(_)
DevicesAsAdded(devices) ==
    \/ devices = <<>>
    \/ /\ devices # <<>>
       /\ devices[1] \in AddDeviceInputs
       /\ DevicesAsAdded(Tail(devices))
    \/ /\ Len(devices) >= Len(ExpectedDefaultDevices)
       /\ SubSeq(devices, 1, Len(ExpectedDefaultDevices)) = ExpectedDefaultDevices
       /\ DevicesAsAdded(SubSeq(devices, Len(ExpectedDefaultDevices) + 1, Len(devices)))

\* The make-node and symlink calls of child p, as the claim orders them.
DeviceNodesInOrder(p) ==
    LET calls == Calls(p)
        mk == SelectSeq(calls, IsMknod)
        sl == SelectSeq(calls, IsSymlink)
        n  == Len(config.devices)
    IN  /\ Len(mk) <= n
        /\ \A j \in 1..Len(mk) :
              /\ mk[j].path = UnderDev(config.devices[j].path.comps)
              /\ mk[j].kind = "S_IFCHR"
              /\ mk[j].perm = "0o666"
              /\ mk[j].dev = makedev(config.devices[j].major, config.devices[j].minor)
              /\ j < Len(mk) => mk[j].ok
        /\ sl # <<>> => (Len(mk) = n /\ \A j \in 1..n : mk[j].ok)
        /\ Len(sl) <= Len(ExpectedSymlinks)
        /\ \A j \in 1..Len(sl) :
              /\ sl[j].path1 = ExpectedSymlinks[j].path1
              /\ sl[j].path2 = UnderDev(ExpectedSymlinks[j].name)
              /\ j < Len(sl) => sl[j].ok
        /\ \A b \in 1..Len(calls) :
              /\ IsMknod(calls[b]) =>
                    \A a \in 1..(b - 1) : ~IsSymlink(calls[a]) /\ ~IsPivotRoot(calls[a])
              /\ IsSymlink(calls[b]) =>
                    \A a \in 1..(b - 1) : ~IsPivotRoot(calls[a])
        /\ (\E b \in 1..Len(calls) : IsPivotRoot(calls[b])) =>
              /\ Len(mk) = n
              /\ Len(sl) = Len(ExpectedSymlinks)
              /\ \A j \in 1..Len(sl) : sl[j].ok

====
